---- MODULE Spec2Model ----
(***************************************************************************)
(* Model of the orchestration core of agent-loop-runner                    *)
(* (src/src/extension.ts, class AgentLoopRunnerPanel): the webview command *)
(* handlers, the queue pump, the per-job attempt loop, the status poller   *)
(* and the file-watcher handlers.                                          *)
(*                                                                         *)
(* Every pumpQueue() invocation is a coroutine.  Its program counter is at *)
(* a real suspension point (an await on the file system, on a VS Code      *)
(* command or on a timer) or at a synchronous point inside one turn of the *)
(* event loop.  While a coroutine is at a synchronous point nothing else   *)
(* runs (Quiescent), so a turn of the event loop is never interleaved.     *)
(***************************************************************************)
EXTENDS Integers, Sequences, FiniteSets, TLC

\* ---------------------------------------------------------------- bounds
MaxRuns == 2
MaxJobs == 2
MaxTime == 3
MaxWrites == 2

\* ------------------------------------------------------- program constants
MaxLoopsPerUrl == 2
PerJobTimeoutMs == 1
FeatureMapWindowMs == 1
EnableWorktree == TRUE
ClampMin == 1
ClampMax == 20
UndefNum == 0 - 99
NotMapped == 0 - 1

Procs == 1..MaxRuns
JobIdx == 0..(MaxJobs - 1)

Undef == "undefined"

\* ------------------------------------------------------------ job records
NoMsg == [kind |-> Undef, n |-> 0, msg |-> ""]
CancelMsg == [kind |-> "cancelled", n |-> 0, msg |-> ""]
TimeoutMsg(ms) == [kind |-> "timeout", n |-> ms, msg |-> ""]
RetryMsg(a) == [kind |-> "retrying", n |-> a, msg |-> ""]
ErrorRetryMsg(a, m) == [kind |-> "error", n |-> a, msg |-> m]
ExceptionMsg(m) == [kind |-> "exception", n |-> 0, msg |-> m]

NoPath == [run |-> 0, label |-> 0]

NoJob ==
  [exists |-> FALSE, indexLabel |-> 0, url |-> Undef, customPrompt |-> "",
   status |-> Undef, runId |-> 0, featureName |-> Undef,
   progressFile |-> Undef, specFile |-> Undef, requirementsFile |-> Undef,
   attemptsUsed |-> UndefNum, maxLoops |-> UndefNum, finalStatus |-> Undef,
   reason |-> Undef, startedAt |-> UndefNum, originalBranch |-> Undef,
   worktreePath |-> NoPath, stopped |-> FALSE, failureMessage |-> NoMsg]

Terminal == {"Done", "Failed", "Stopped"}

\* a || b on optional strings
OrElse(a, b) == IF a # Undef /\ a # "" THEN a ELSE b

clampInt(n, lo, hi) == IF n < lo THEN lo ELSE IF n > hi THEN hi ELSE n

\* ------------------------------------------------------------ inputs
Pair(u, p) == [url |-> u, prompt |-> p]
PairInputs ==
  { << Pair("https://a", ""), Pair("https://a", "x") >>,
    << Pair("https://a", "x"), Pair("https://b", "") >>,
    << Pair("not a url", "") >> }
\* every list of at most MaxPairs pairs drawn from PairChoices
MaxPairs == 3
PairChoices == {Pair("https://a", ""), Pair(" https://a ", "x"), Pair("https://b", "x"),
                Pair("not a url", "")}
BuildInputs == UNION {[1..n -> PairChoices] : n \in 0..MaxPairs}
GlobalMaxLoopsInputs == {UndefNum, 1, 0 - 1}
SetLoopsInputs == {0, 1, 2}
Features == {"Widgets"}

looksLikeUrl(u) == u \in {"https://a", "https://b"}

\* String.prototype.trim on the url strings of the inputs
trim(u) == IF u = " https://a " THEN "https://a" ELSE u

\* the map step of loadAndRun: every url is trimmed
normalizePairs(ps) == [k \in 1..Len(ps) |-> Pair(trim(ps[k].url), ps[k].prompt)]

\* a deduplication that keeps the last occurrence of a url
RECURSIVE dedupePairsLast(_, _)
dedupePairsLast(ps, seen) ==
  IF ps = << >> THEN << >>
  ELSE LET p == ps[Len(ps)]
           front == SubSeq(ps, 1, Len(ps) - 1)
       IN IF (~looksLikeUrl(p.url)) \/ p.url \in seen
          THEN dedupePairsLast(front, seen)
          ELSE dedupePairsLast(front, seen \cup {p.url}) \o << p >>

RECURSIVE dedupePairs(_, _)
dedupePairs(ps, seen) ==
  IF ps = << >> THEN << >>
  ELSE LET p == Head(ps) IN
       IF (~looksLikeUrl(p.url)) \/ p.url \in seen
       THEN dedupePairs(Tail(ps), seen)
       ELSE << p >> \o dedupePairs(Tail(ps), seen \cup {p.url})

\* buildJobs followed by the reset map of loadAndRun; rid is the new run id
buildJobs(pairs, g) ==
  LET loops == IF g = UndefNum THEN MaxLoopsPerUrl ELSE g
  IN [i \in JobIdx |->
        IF i < Len(pairs)
        THEN [NoJob EXCEPT !.exists = TRUE, !.indexLabel = i + 1,
                           !.url = pairs[i + 1].url,
                           !.customPrompt = pairs[i + 1].prompt,
                           !.status = "Queued", !.maxLoops = loops,
                           !.attemptsUsed = 0]
        ELSE NoJob]

\* ------------------------------------------------------------ status files
Line(k, v) == [key |-> k, value |-> v]
PassFile == << Line("agent_status", "pass"), Line("FeatureName", "Widgets"),
               Line("SpecPath", "/t/Widgets.spec.ts") >>
FailFile == << Line("AGENT_STATUS", "FAIL"), Line("Reason", "locator timeout") >>
NoMarkerFile == << Line("STATUS", "PASS"), Line("Summary", "working") >>
\* a PASS artifact that names another feature
GadgetsFile == << Line("AGENT_STATUS", "PASS"), Line("FeatureName", "Gadgets") >>
StatusContents == {PassFile, FailFile, NoMarkerFile}
NoFile == << >>

Upper(s) == CASE s \in {"pass", "PASS"} -> "PASS"
              [] s \in {"fail", "FAIL"} -> "FAIL"
              [] s \in {"agent_status", "AGENT_STATUS"} -> "AGENT_STATUS"
              [] s \in {"featurename", "FeatureName"} -> "FEATURENAME"
              [] s \in {"summary", "Summary"} -> "SUMMARY"
              [] s \in {"specpath", "SpecPath"} -> "SPECPATH"
              [] s \in {"reason", "Reason"} -> "REASON"
              [] OTHER -> s

NoMarkers == [agentStatus |-> Undef, featureName |-> Undef, summary |-> Undef,
              specPath |-> Undef, reason |-> Undef]

RECURSIVE parseLines(_, _)
parseLines(lines, out) ==
  IF lines = << >> THEN out
  ELSE LET l == Head(lines)
           k == Upper(l.key)
           o == CASE k = "AGENT_STATUS" /\ Upper(l.value) \in {"PASS", "FAIL"}
                       -> [out EXCEPT !.agentStatus = Upper(l.value)]
                  [] k = "FEATURENAME" /\ l.value # "" -> [out EXCEPT !.featureName = l.value]
                  [] k = "SUMMARY" /\ l.value # "" -> [out EXCEPT !.summary = l.value]
                  [] k = "SPECPATH" /\ l.value # "" -> [out EXCEPT !.specPath = l.value]
                  [] k = "REASON" /\ l.value # "" -> [out EXCEPT !.reason = l.value]
                  [] OTHER -> out
       IN parseLines(Tail(lines), o)

parseStatusFile(text) == parseLines(text, NoMarkers)

\* a status record that also counts the artifact as an attempt
applyMarkersCounting(j, m) ==
  [j EXCEPT !.exists = TRUE,
            !.status = IF m.agentStatus = "PASS" THEN "Done" ELSE "Failed",
            !.finalStatus = m.agentStatus,
            !.attemptsUsed = j.attemptsUsed + 1,
            !.featureName = OrElse(m.featureName, j.featureName),
            !.reason = OrElse(m.reason, OrElse(m.summary, j.reason)),
            !.specFile = OrElse(m.specPath, j.specFile)]

\* the record written by onStatusFileEvent / pollStatusFile over base record j
applyMarkers(j, m) ==
  [j EXCEPT !.exists = TRUE,
            !.status = IF m.agentStatus = "PASS" THEN "Done" ELSE "Failed",
            !.finalStatus = m.agentStatus,
            !.featureName = OrElse(m.featureName, j.featureName),
            !.reason = OrElse(m.reason, OrElse(m.summary, j.reason)),
            !.specFile = OrElse(m.specPath, j.specFile)]

ProgressPath(f) == "/t/" \o f \o "-progress.md"
SpecPath(f) == "/t/" \o f \o ".spec.ts"
ReqPath(f) == "/t/" \o f \o "-requirements.md"

\* ------------------------------------------------------------ state
VARIABLES
  jobs, runId, running, queue, featureToJob,
  pc, jobIdx, attempt, maxAttempts, snap, promptText, waitStart, term, path,
  statusFile, statusEvents, statusReads, writes,
  now, branch, worktrees, perJobTimeoutMs, pushed,
  snapAlias, pumpRun, cancelled, lastStop, stopQueued, published, cancelQueued

vars == << jobs, runId, running, queue, featureToJob,
           pc, jobIdx, attempt, maxAttempts, snap, promptText, waitStart, term, path,
           statusFile, statusEvents, statusReads, writes,
           now, branch, worktrees, perJobTimeoutMs, snapAlias, pumpRun, cancelled,
           lastStop, stopQueued, pushed, published, cancelQueued >>

panelVars == << jobs, runId, running, queue, featureToJob >>
pumpLocals == << jobIdx, attempt, maxAttempts, snap, promptText, waitStart, term, path >>
pumpVars == << pc, pumpLocals >>
fileVars == << statusFile, statusEvents, statusReads, writes >>
envVars == << now, branch, worktrees, perJobTimeoutMs >>
ghostVars == << snapAlias, pumpRun, cancelled, lastStop, stopQueued >>
publishVars == << pushed, published >>

StatusPaths == {[run |-> r, label |-> l] : r \in 1..MaxRuns, l \in 1..MaxJobs}

NoPrompt == [runId |-> 0, item |-> 0, url |-> Undef, attempt |-> 0, maxLoops |-> UndefNum,
             worktreePath |-> NoPath, body |-> "", retry |-> FALSE,
             failureMessage |-> NoMsg, reason |-> Undef, progressFile |-> Undef,
             specFile |-> Undef, requirementsFile |-> Undef]

Init ==
  /\ jobs = [i \in JobIdx |-> NoJob]
  /\ runId = 0
  /\ running = FALSE
  /\ queue = << >>
  /\ featureToJob = [f \in Features |-> NotMapped]
  /\ pc = [p \in Procs |-> "idle"]
  /\ jobIdx = [p \in Procs |-> 0]
  /\ attempt = [p \in Procs |-> 0]
  /\ maxAttempts = [p \in Procs |-> 0]
  /\ snap = [p \in Procs |-> NoJob]
  /\ promptText = [p \in Procs |-> NoPrompt]
  /\ waitStart = [p \in Procs |-> 0]
  /\ term = [p \in Procs |-> Undef]
  /\ path = [p \in Procs |-> NoPath]
  /\ statusFile = [sp \in StatusPaths |-> NoFile]
  /\ statusEvents = {}
  /\ statusReads = {}
  /\ writes = 0
  /\ now = 1
  /\ branch = "main"
  /\ worktrees = {}
  /\ perJobTimeoutMs \in {0, PerJobTimeoutMs}
  /\ snapAlias = [p \in Procs |-> FALSE]
  /\ pumpRun = [p \in Procs |-> 0]
  /\ cancelled = {}
  /\ lastStop = "none"
  /\ stopQueued = {}
  /\ pushed = {}
  /\ published = {}
  /\ cancelQueued = {}

\* ------------------------------------------------------------ event loop
\* program counters inside one synchronous turn of the event loop
MicroPcs == {"pump", "runJob", "attemptTop", "beginAttempt", "waitTop", "afterWait", "finally"}
Quiescent == \A p \in Procs : pc[p] \notin MicroPcs
Others(p) == \A q \in Procs \ {p} : pc[q] \notin MicroPcs

\* this.jobs.length: one more than the largest index that holds a record
JobsLength == IF \E i \in JobIdx : jobs[i].exists
              THEN 1 + CHOOSE i \in JobIdx : jobs[i].exists /\ \A k \in JobIdx : jobs[k].exists => k <= i
              ELSE 0
\* indices the array iterator visits before it meets a hole
BeforeHole == {i \in JobIdx : i < JobsLength /\ \A k \in 0..i : jobs[k].exists}
HasHole == \E i \in JobIdx : i < JobsLength /\ ~jobs[i].exists

\* a captured `const job = this.jobs[idx]` stops being the array's object
\* once a handler stores a new object at that index
Unalias(S) == [p \in Procs |-> snapAlias[p] /\ jobIdx[p] \notin S]

\* ------------------------------------------------------------ commands
\* what loadAndRun leaves when it is not rejected: the job list, run id,
\* running flag, queue and map, and whether it goes on to start a queue pump
loadAndRunAccepted(pairs, g) ==
  LET dp == dedupePairs(normalizePairs(pairs), {})
      built == buildJobs(dp, g)
      rid == runId + 1
  IN IF Len(dp) = 0
     THEN [jobs |-> built, runId |-> runId, running |-> running, queue |-> queue,
           featureToJob |-> featureToJob, pump |-> FALSE]
     ELSE [jobs |-> [i \in JobIdx |->
                       IF built[i].exists
                       THEN [built[i] EXCEPT !.runId = rid,
                               !.maxLoops = IF built[i].maxLoops # 0
                                            THEN built[i].maxLoops ELSE MaxLoopsPerUrl]
                       ELSE NoJob],
           runId |-> rid, running |-> TRUE,
           queue |-> [k \in 1..Len(dp) |-> k - 1],
           featureToJob |-> [f \in Features |-> NotMapped], pump |-> TRUE]

\* a loadAndRun without the test of the running flag
loadAndRunUnguarded(pairs, g) == loadAndRunAccepted(pairs, g)

\* onMessage 'loadAndRun' up to its await: `if (this.running) return;` first
loadAndRun(pairs, g) ==
  IF running
  THEN [jobs |-> jobs, runId |-> runId, running |-> running, queue |-> queue,
        featureToJob |-> featureToJob, pump |-> FALSE]
  ELSE loadAndRunAccepted(pairs, g)

\* onMessage 'loadAndRun', when it is not rejected
LoadAndRun(pairs, g) ==
  /\ Quiescent
  /\ ~running
  /\ LET r == loadAndRun(pairs, g)
     IN /\ r.pump => runId < MaxRuns
        /\ jobs' = r.jobs
        /\ runId' = r.runId
        /\ running' = r.running
        /\ queue' = r.queue
        /\ featureToJob' = r.featureToJob
        /\ snapAlias' = Unalias(JobIdx)
        /\ cancelled' = {}
        /\ stopQueued' = {}
        /\ IF r.pump
           THEN /\ pc' = [pc EXCEPT ![r.runId] = "ensureDir"]
                /\ pumpRun' = [pumpRun EXCEPT ![r.runId] = r.runId]
           ELSE UNCHANGED << pc, pumpRun >>
        /\ UNCHANGED << pumpLocals, fileVars, envVars, publishVars, cancelQueued, lastStop >>

\* onMessage 'cancelJob'
CancelJob(i) ==
  /\ Quiescent
  /\ jobs[i].exists
  /\ jobs[i].status \in {"Running", "Planning"}
  /\ jobs' = [jobs EXCEPT ![i] = [@ EXCEPT !.status = "Failed", !.stopped = TRUE,
                                           !.failureMessage = CancelMsg,
                                           !.finalStatus = "FAIL"]]
  /\ snapAlias' = Unalias({i})
  /\ cancelled' = cancelled \cup {i}
  /\ UNCHANGED << runId, running, queue, featureToJob, pumpVars, fileVars, envVars, publishVars, cancelQueued, pumpRun, lastStop, stopQueued >>

\* onMessage 'cancelJob' for a job that waits in the queue and is neither
\* Running nor Planning: the handler's test fails and nothing is changed; the
\* request is remembered
CancelQueued(i) ==
  /\ Quiescent
  /\ \E k \in 1..Len(queue) : queue[k] = i
  /\ jobs[i].exists
  /\ jobs[i].status \notin {"Running", "Planning"}
  /\ cancelQueued' = cancelQueued \cup {[run |-> jobs[i].runId, label |-> jobs[i].indexLabel]}
  /\ UNCHANGED << panelVars, pumpVars, fileVars, envVars, publishVars, snapAlias, pumpRun,
                  cancelled, lastStop, stopQueued >>

\* the in-place mutation of the stop loop
StopMutate(j) == [j EXCEPT !.status = IF j.status = "Queued" THEN "Stopped" ELSE j.status,
                           !.stopped = TRUE]

\* onMessage 'stop'
Stop ==
  /\ Quiescent
  /\ running' = FALSE
  /\ queue' = << >>
  /\ jobs' = [i \in JobIdx |-> IF i \in BeforeHole THEN StopMutate(jobs[i]) ELSE jobs[i]]
  /\ snap' = [p \in Procs |-> IF snapAlias[p] /\ jobIdx[p] \in BeforeHole
                              THEN StopMutate(snap[p]) ELSE snap[p]]
  /\ lastStop' = IF HasHole THEN "threw" ELSE "returned"
  /\ stopQueued' = stopQueued \cup {i \in BeforeHole : jobs[i].status = "Queued"}
  /\ UNCHANGED << runId, featureToJob, pc, jobIdx, attempt, maxAttempts, promptText,
                  waitStart, term, path, fileVars, envVars, publishVars, cancelQueued, snapAlias, pumpRun, cancelled >>

\* onMessage 'setMaxLoops'
SetMaxLoops(i, raw) ==
  /\ Quiescent
  /\ jobs[i].exists
  /\ jobs' = [jobs EXCEPT ![i] = [@ EXCEPT !.maxLoops = clampInt(raw, ClampMin, ClampMax)]]
  /\ snapAlias' = Unalias({i})
  /\ UNCHANGED << runId, running, queue, featureToJob, pumpVars, fileVars, envVars, publishVars, cancelQueued, pumpRun, cancelled, lastStop, stopQueued >>

\* onMessage 'setAllMaxLoops'
SetAllMaxLoops(raw) ==
  /\ Quiescent
  /\ JobsLength > 0
  /\ jobs' = [i \in JobIdx |->
                IF i < JobsLength
                THEN [jobs[i] EXCEPT !.exists = TRUE,
                                     !.maxLoops = clampInt(raw, ClampMin, ClampMax)]
                ELSE jobs[i]]
  /\ snapAlias' = Unalias(JobIdx)
  /\ UNCHANGED << runId, running, queue, featureToJob, pumpVars, fileVars, envVars, publishVars, cancelQueued, pumpRun, cancelled, lastStop, stopQueued >>

\* ------------------------------------------------------------ environment
\* the external agent writes (creates or changes) a status artifact; the
\* watcher will report it
AgentWriteStatus(sp, c) ==
  /\ Quiescent
  /\ writes < MaxWrites
  /\ sp.run <= runId
  /\ statusFile' = [statusFile EXCEPT ![sp] = c]
  /\ statusEvents' = statusEvents \cup {sp}
  /\ writes' = writes + 1
  /\ UNCHANGED << panelVars, pumpVars, statusReads, envVars, publishVars, cancelQueued, ghostVars >>

\* wall clock
Tick ==
  /\ Quiescent
  /\ now < MaxTime
  /\ now' = now + 1
  /\ UNCHANGED << panelVars, pumpVars, fileVars, branch, worktrees, perJobTimeoutMs, publishVars, cancelQueued, ghostVars >>

\* the external agent switches the branch of the shared workspace
BranchDrift ==
  /\ Quiescent
  /\ runId > 0
  /\ branch = "main"
  /\ branch' = "agent-branch"
  /\ UNCHANGED << panelVars, pumpVars, fileVars, now, worktrees, perJobTimeoutMs, publishVars, cancelQueued, ghostVars >>

\* ------------------------------------------------------------ watchers
\* onStatusFileEvent up to its await: the watcher fires and the file is read
StatusEventRead(sp) ==
  /\ Quiescent
  /\ sp \in statusEvents
  /\ statusEvents' = statusEvents \ {sp}
  /\ statusReads' = IF statusFile[sp] = NoFile THEN statusReads
                    ELSE statusReads \cup {[label |-> sp.label, content |-> statusFile[sp]]}
  /\ UNCHANGED << panelVars, pumpVars, statusFile, writes, envVars, publishVars, cancelQueued, ghostVars >>

\* a lookup that takes the first job of the run whatever its label
findStatusJobAnyLabel(label) ==
  LET hits == {i \in JobIdx : jobs[i].exists /\ jobs[i].runId = runId}
  IN IF hits = {} THEN NotMapped ELSE CHOOSE i \in hits : \A k \in hits : i <= k

\* this.jobs.findIndex(j => j.indexLabel === itemLabel && j.runId === this.runId);
\* the callback dereferences every element it visits, so a hole that is met
\* before a match throws
findStatusJob(label) ==
  LET hits == {i \in JobIdx : jobs[i].exists /\ jobs[i].indexLabel = label /\ jobs[i].runId = runId}
      first == IF hits = {} THEN NotMapped
               ELSE CHOOSE i \in hits : \A k \in hits : i <= k
  IN IF first # NotMapped /\ first \in BeforeHole THEN first
     ELSE NotMapped

\* a status handler that does not test for the PASS/FAIL marker
onStatusFileEventUnchecked(rd) ==
  LET i == findStatusJob(rd.label)
      m == parseStatusFile(rd.content)
  IN IF i = NotMapped THEN jobs
     ELSE [jobs EXCEPT ![i] = applyMarkers(jobs[i], m)]

\* the job list onStatusFileEvent leaves when it handles the read rd
onStatusFileEvent(rd) ==
  LET i == findStatusJob(rd.label)
      m == parseStatusFile(rd.content)
  IN IF i = NotMapped \/ m.agentStatus = Undef THEN jobs
     ELSE [jobs EXCEPT ![i] = applyMarkers(jobs[i], m)]

\* onStatusFileEvent after the read
StatusEventApply(rd) ==
  /\ Quiescent
  /\ rd \in statusReads
  /\ statusReads' = statusReads \ {rd}
  /\ jobs' = onStatusFileEvent(rd)
  /\ LET i == findStatusJob(rd.label)
         m == parseStatusFile(rd.content)
     IN snapAlias' = IF i = NotMapped \/ m.agentStatus = Undef THEN snapAlias
                     ELSE Unalias({i})
  /\ UNCHANGED << runId, running, queue, featureToJob, pumpVars, statusFile, statusEvents,
                  writes, envVars, publishVars, cancelQueued, pumpRun, cancelled, lastStop, stopQueued >>

\* a mapping that ignores the age of the attempt
mapFeatureIgnoringWindow ==
  LET cand == {i \in JobIdx :
                 /\ jobs[i].exists
                 /\ jobs[i].featureName = Undef
                 /\ jobs[i].runId = runId
                 /\ jobs[i].status \in {"Running", "Planning"}
                 /\ jobs[i].startedAt # UndefNum}
  IN IF HasHole \/ cand = {} THEN NotMapped
     ELSE CHOOSE i \in cand :
            \A k \in cand : \/ jobs[k].startedAt < jobs[i].startedAt
                            \/ (jobs[k].startedAt = jobs[i].startedAt /\ i <= k)

\* a mapping that prefers the job that started first
mapFeatureToOldestUnmappedRunningJob ==
  LET cand == {i \in JobIdx :
                 /\ jobs[i].exists
                 /\ jobs[i].featureName = Undef
                 /\ jobs[i].runId = runId
                 /\ jobs[i].status \in {"Running", "Planning"}
                 /\ jobs[i].startedAt # UndefNum
                 /\ now - jobs[i].startedAt <= FeatureMapWindowMs}
  IN IF HasHole \/ cand = {} THEN NotMapped
     ELSE CHOOSE i \in cand :
            \A k \in cand : \/ jobs[k].startedAt > jobs[i].startedAt
                            \/ (jobs[k].startedAt = jobs[i].startedAt /\ i <= k)

\* mapFeatureToMostRecentUnmappedRunningJob
mapFeatureToMostRecentUnmappedRunningJob ==
  LET cand == {i \in JobIdx :
                 /\ jobs[i].exists
                 /\ jobs[i].featureName = Undef
                 /\ jobs[i].runId = runId
                 /\ jobs[i].status \in {"Running", "Planning"}
                 /\ jobs[i].startedAt # UndefNum
                 /\ now - jobs[i].startedAt <= FeatureMapWindowMs}
  IN IF HasHole \/ cand = {} THEN NotMapped
     ELSE CHOOSE i \in cand :
            \A k \in cand : \/ jobs[k].startedAt < jobs[i].startedAt
                            \/ (jobs[k].startedAt = jobs[i].startedAt /\ i <= k)

\* the job list and the map refreshFromProgressFile leaves for a progress
\* event of feature f
refreshFromProgressFile(f) ==
  LET i == mapFeatureToMostRecentUnmappedRunningJob
  IN IF featureToJob[f] # NotMapped \/ i = NotMapped
     THEN [jobs |-> jobs, featureToJob |-> featureToJob]
     ELSE [jobs |-> [jobs EXCEPT ![i] = [@ EXCEPT !.featureName = f,
                                                  !.progressFile = ProgressPath(f)]],
           featureToJob |-> [featureToJob EXCEPT ![f] = i]]

\* onProgressFileEvent / refreshFromProgressFile, when it maps the feature
ProgressEvent(f) ==
  /\ Quiescent
  /\ runId > 0
  /\ featureToJob[f] = NotMapped
  /\ LET i == mapFeatureToMostRecentUnmappedRunningJob
     IN /\ i # NotMapped
        /\ featureToJob' = refreshFromProgressFile(f).featureToJob
        /\ jobs' = refreshFromProgressFile(f).jobs
        /\ snapAlias' = Unalias({i})
  /\ UNCHANGED << runId, running, queue, pumpVars, fileVars, envVars, publishVars, cancelQueued, pumpRun, cancelled, lastStop, stopQueued >>

\* the job list onSpecFileEvent leaves for a specification event of feature f
onSpecFileEvent(f) ==
  LET i == featureToJob[f]
  IN IF i = NotMapped THEN jobs
     ELSE [jobs EXCEPT ![i] = [@ EXCEPT !.exists = TRUE, !.specFile = SpecPath(f)]]

\* the job list onReqFileEvent leaves for a requirements event of feature f
onReqFileEvent(f) ==
  LET i == featureToJob[f]
  IN IF i = NotMapped THEN jobs
     ELSE [jobs EXCEPT ![i] = [@ EXCEPT !.exists = TRUE, !.requirementsFile = ReqPath(f)]]

\* onSpecFileEvent
SpecEvent(f) ==
  /\ Quiescent
  /\ featureToJob[f] # NotMapped
  /\ jobs' = onSpecFileEvent(f)
  /\ snapAlias' = Unalias({featureToJob[f]})
  /\ UNCHANGED << runId, running, queue, featureToJob, pumpVars, fileVars, envVars, publishVars, cancelQueued, pumpRun, cancelled, lastStop, stopQueued >>

\* onReqFileEvent
ReqEvent(f) ==
  /\ Quiescent
  /\ featureToJob[f] # NotMapped
  /\ jobs' = onReqFileEvent(f)
  /\ snapAlias' = Unalias({featureToJob[f]})
  /\ UNCHANGED << runId, running, queue, featureToJob, pumpVars, fileVars, envVars, publishVars, cancelQueued, pumpRun, cancelled, lastStop, stopQueued >>

\* ------------------------------------------------------------ queue pump
\* a catch block that never retries
CatchAttemptFinal(p, m) ==
  LET i == jobIdx[p]
  IN /\ jobs' = [jobs EXCEPT ![i] = [@ EXCEPT !.exists = TRUE, !.status = "Failed",
                                              !.failureMessage = ExceptionMsg(m),
                                              !.finalStatus = "FAIL",
                                              !.attemptsUsed = attempt[p]]]
     /\ pc' = [pc EXCEPT ![p] = "finally"]
     /\ snapAlias' = Unalias({i})

\* the catch block of runJob: exception message m raised inside attempt[p]
CatchAttempt(p, m) ==
  LET i == jobIdx[p]
      a == attempt[p]
  IN /\ IF a < maxAttempts[p]
        THEN /\ jobs' = [jobs EXCEPT ![i] = [@ EXCEPT !.exists = TRUE, !.status = "Queued",
                                                     !.attemptsUsed = a,
                                                     !.failureMessage = ErrorRetryMsg(a, m)]]
             /\ pc' = [pc EXCEPT ![p] = "retryDelay"]
        ELSE /\ jobs' = [jobs EXCEPT ![i] = [@ EXCEPT !.exists = TRUE, !.status = "Failed",
                                                     !.failureMessage = ExceptionMsg(m),
                                                     !.finalStatus = "FAIL",
                                                     !.attemptsUsed = a]]
             /\ pc' = [pc EXCEPT ![p] = "finally"]
     /\ snapAlias' = Unalias({i})

\* loadAndRun resumes after `await this.ensureStatusDir()` and calls pumpQueue
EnsureDirDone(p) ==
  /\ Quiescent
  /\ pc[p] = "ensureDir"
  /\ pc' = [pc EXCEPT ![p] = "pump"]
  /\ UNCHANGED << panelVars, pumpLocals, fileVars, envVars, publishVars, cancelQueued, ghostVars >>

\* pumpQueue: one evaluation of the while condition and of the loop head
PumpLoop(p) ==
  /\ pc[p] = "pump"
  /\ Others(p)
  /\ IF running /\ queue # << >>
     THEN LET i == Head(queue)
          IN /\ queue' = Tail(queue)
             /\ IF (~jobs[i].exists) \/ jobs[i].stopped
                THEN UNCHANGED << pc, jobIdx >>
                ELSE /\ pc' = [pc EXCEPT ![p] = "runJob"]
                     /\ jobIdx' = [jobIdx EXCEPT ![p] = i]
             /\ UNCHANGED running
     ELSE /\ running' = FALSE
          /\ pc' = [pc EXCEPT ![p] = "done"]
          /\ UNCHANGED << queue, jobIdx >>
  /\ UNCHANGED << jobs, runId, featureToJob, attempt, maxAttempts, snap, promptText,
                  waitStart, term, path, fileVars, envVars, publishVars, cancelQueued, ghostVars >>

\* createWorktreeForJob: gitOk, the branch of the shared workspace could be
\* read; wtOk, `git worktree add` succeeded
createWorktreeForJob(j, gitOk, wtOk) ==
  LET ob == IF gitOk THEN branch ELSE "unknown"
  IN IF ~EnableWorktree THEN j
     ELSE IF wtOk
     THEN [j EXCEPT !.originalBranch = ob,
                    !.worktreePath = [run |-> j.runId, label |-> j.indexLabel]]
     ELSE [j EXCEPT !.originalBranch = ob]

\* runJob from its entry to the top of the attempt loop
RunJobEntry(p, gitOk, wtOk) ==
  /\ pc[p] = "runJob"
  /\ Others(p)
  /\ LET i == jobIdx[p]
     IN   /\ (wtOk => gitOk)
          /\ jobs' = [jobs EXCEPT ![i] = createWorktreeForJob(jobs[i], gitOk, wtOk)]
          /\ worktrees' = IF EnableWorktree /\ wtOk
                          THEN worktrees \cup {jobs'[i].worktreePath} ELSE worktrees
          /\ maxAttempts' = [maxAttempts EXCEPT ![p] = jobs[i].maxLoops]
          /\ attempt' = [attempt EXCEPT ![p] = 1]
          /\ pc' = [pc EXCEPT ![p] = "attemptTop"]
          /\ snapAlias' = Unalias({i})
  /\ UNCHANGED << runId, running, queue, featureToJob, jobIdx, snap, promptText,
                  waitStart, term, path, fileVars, now, branch, perJobTimeoutMs, publishVars, cancelQueued, pumpRun, cancelled, lastStop, stopQueued >>

\* a stop check that only looks at the running flag
abortAttemptRunningOnly(p) == ~running

\* `if (current?.stopped || !this.running) return;` at the top of an attempt,
\* on the job record and the flag as they are now
abortAttempt(p) == jobs[jobIdx[p]].stopped \/ ~running

\* the loop condition, the stop check at the top of an attempt, and
\* deleteStatusFile up to its await
AttemptTop(p) ==
  /\ pc[p] = "attemptTop"
  /\ Others(p)
  /\ LET i == jobIdx[p]
     IN IF attempt[p] > maxAttempts[p] \/ abortAttempt(p)
        THEN /\ pc' = [pc EXCEPT ![p] = "finally"]
             /\ UNCHANGED path
        ELSE IF (~jobs[i].exists) \/ jobs[i].runId = 0
        THEN /\ pc' = [pc EXCEPT ![p] = "beginAttempt"]
             /\ path' = [path EXCEPT ![p] = NoPath]
        ELSE /\ pc' = [pc EXCEPT ![p] = "delete"]
             /\ path' = [path EXCEPT ![p] = [run |-> jobs[i].runId, label |-> jobs[i].indexLabel]]
  /\ UNCHANGED << panelVars, jobIdx, attempt, maxAttempts, snap, promptText, waitStart,
                  term, fileVars, envVars, publishVars, cancelQueued, ghostVars >>

\* deleteStatusFile: the stale status artifact is removed
DeleteDone(p) ==
  /\ Quiescent
  /\ pc[p] = "delete"
  /\ statusFile' = [statusFile EXCEPT ![path[p]] = NoFile]
  /\ pc' = [pc EXCEPT ![p] = "beginAttempt"]
  /\ path' = [path EXCEPT ![p] = NoPath]
  /\ UNCHANGED << panelVars, jobIdx, attempt, maxAttempts, snap, promptText, waitStart, term,
                  statusEvents, statusReads, writes, envVars, publishVars, cancelQueued, ghostVars >>

\* the text writePromptFile composes from its captured job record
composePrompt(j, a) ==
  [runId |-> 0, item |-> j.indexLabel, url |-> j.url, attempt |-> a, maxLoops |-> j.maxLoops,
   worktreePath |-> j.worktreePath,
   body |-> IF j.customPrompt # "" THEN j.customPrompt ELSE "DEFAULT_PROMPT",
   retry |-> a > 1,
   failureMessage |-> IF a > 1 THEN j.failureMessage ELSE NoMsg,
   reason |-> IF a > 1 THEN j.reason ELSE Undef,
   progressFile |-> IF a > 1 THEN j.progressFile ELSE Undef,
   specFile |-> IF a > 1 THEN j.specFile ELSE Undef,
   requirementsFile |-> IF a > 1 THEN j.requirementsFile ELSE Undef]

\* an attempt record that is Planning on every attempt
beginAttemptPlanning(j, a) ==
  [j EXCEPT !.exists = TRUE, !.status = "Planning", !.startedAt = now,
            !.attemptsUsed = a, !.finalStatus = Undef, !.failureMessage = NoMsg]

\* the record an attempt starts with
beginAttemptRecord(j, a) ==
  [j EXCEPT !.exists = TRUE,
            !.status = IF a = 1 THEN "Planning" ELSE "Running",
            !.startedAt = now,
            !.attemptsUsed = a,
            !.finalStatus = Undef,
            !.failureMessage = NoMsg]

\* runJob after deleteStatusFile: the attempt's record is written and
\* writePromptFile captures the job
BeginAttempt(p) ==
  /\ pc[p] = "beginAttempt"
  /\ Others(p)
  /\ LET i == jobIdx[p]
     IN /\ jobs' = [jobs EXCEPT ![i] = beginAttemptRecord(jobs[i], attempt[p])]
        /\ promptText' = [promptText EXCEPT ![p] = composePrompt(jobs'[i], attempt[p])]
        /\ snapAlias' = Unalias({i})
  /\ pc' = [pc EXCEPT ![p] = "write"]
  /\ UNCHANGED << runId, running, queue, featureToJob, jobIdx, attempt, maxAttempts, snap,
                  waitStart, term, path, fileVars, envVars, publishVars, cancelQueued, pumpRun, cancelled, lastStop, stopQueued >>

\* writePromptFile returns (createDirectory and writeFile done, or one of
\* them threw); on success the job goes to Running and sendPromptToChat starts
WriteDone(p, ok) ==
  /\ Quiescent
  /\ pc[p] = "write"
  /\ LET i == jobIdx[p]
     IN   IF ok
          THEN /\ promptText' = [promptText EXCEPT ![p].runId = runId]
               /\ jobs' = [jobs EXCEPT ![i] = [@ EXCEPT !.exists = TRUE, !.status = "Running"]]
               /\ pc' = [pc EXCEPT ![p] = "send"]
               /\ snapAlias' = Unalias({i})
          ELSE /\ CatchAttempt(p, "fs")
               /\ promptText' = [promptText EXCEPT ![p] = NoPrompt]
  /\ UNCHANGED << runId, running, queue, featureToJob, jobIdx, attempt, maxAttempts, snap,
                  waitStart, term, path, fileVars, envVars, publishVars, cancelQueued, pumpRun, cancelled, lastStop, stopQueued >>

\* sendPromptToChat returns: one of the three approaches dispatched the
\* prompt, or all of them failed and it threw
SendDone(p, ok) ==
  /\ Quiescent
  /\ pc[p] = "send"
  /\ IF ok
     THEN /\ waitStart' = [waitStart EXCEPT ![p] = now]
          /\ pc' = [pc EXCEPT ![p] = "waitTop"]
          /\ UNCHANGED << jobs, snapAlias >>
     ELSE /\ CatchAttempt(p, "dispatch")
          /\ UNCHANGED waitStart
  /\ promptText' = [promptText EXCEPT ![p] = NoPrompt]
  /\ UNCHANGED << runId, running, queue, featureToJob, jobIdx, attempt, maxAttempts, snap,
                  term, path, fileVars, envVars, publishVars, cancelQueued, pumpRun, cancelled, lastStop, stopQueued >>

\* guardBranch / the restore step of cleanupWorktree: the branch the shared
\* workspace is on afterwards
restoreBranch(j) ==
  IF EnableWorktree /\ j.originalBranch \notin {Undef, "unknown"} /\ branch # j.originalBranch
  THEN j.originalBranch ELSE branch

\* the record the timeout branch of waitForTerminalStatus writes
timeoutRecord(j) ==
  [j EXCEPT !.exists = TRUE, !.status = "Failed",
            !.failureMessage = TimeoutMsg(perJobTimeoutMs), !.finalStatus = "FAIL"]

\* a terminal test that only knows Done
isTerminalDoneOnly(st) == st = "Done"

\* the terminal test at the top of the wait loop
isTerminal(st) == st \in Terminal

\* a timeout test that is late by one unit
timedOutLate(p) == perJobTimeoutMs > 0 /\ now - waitStart[p] > perJobTimeoutMs + 1

\* the timeout test of waitForTerminalStatus
timedOut(p) == perJobTimeoutMs > 0 /\ now - waitStart[p] > perJobTimeoutMs

\* waitForTerminalStatus: one evaluation of the while condition and of the
\* loop body up to the await inside pollStatusFile
WaitTop(p) ==
  /\ pc[p] = "waitTop"
  /\ Others(p)
  /\ LET i == jobIdx[p]
         j == jobs[i]
         return(t) == /\ term' = [term EXCEPT ![p] = t]
                      /\ pc' = [pc EXCEPT ![p] = "afterWait"]
                      /\ waitStart' = [waitStart EXCEPT ![p] = 0]
                      /\ UNCHANGED << snap, path, branch >>
     IN IF ~running THEN return("Stopped") /\ UNCHANGED << jobs, snapAlias >>
        ELSE IF ~j.exists THEN return("Failed") /\ UNCHANGED << jobs, snapAlias >>
        ELSE IF isTerminal(j.status) THEN return(j.status) /\ UNCHANGED << jobs, snapAlias >>
        ELSE IF timedOut(p)
        THEN /\ jobs' = [jobs EXCEPT ![i] = timeoutRecord(j)]
             /\ snapAlias' = Unalias({i})
             /\ return("Failed")
        ELSE IF j.runId = 0
        THEN /\ branch' = restoreBranch(j)
             /\ pc' = [pc EXCEPT ![p] = "waitDelay"]
             /\ UNCHANGED << jobs, snapAlias, snap, path, term, waitStart >>
        ELSE /\ snap' = [snap EXCEPT ![p] = j]
             /\ snapAlias' = [snapAlias EXCEPT ![p] = TRUE]
             /\ path' = [path EXCEPT ![p] = [run |-> j.runId, label |-> j.indexLabel]]
             /\ pc' = [pc EXCEPT ![p] = "poll"]
             /\ UNCHANGED << jobs, term, branch, waitStart >>
  /\ UNCHANGED << runId, running, queue, featureToJob, jobIdx, attempt, maxAttempts,
                  promptText, fileVars, now, worktrees, perJobTimeoutMs, publishVars, cancelQueued,
                  pumpRun, cancelled, lastStop, stopQueued >>

\* a poller that also counts the artifact as an attempt
pollRecordCounting(base, current, m) == applyMarkersCounting(base, m)

\* the record pollStatusFile stores: the job captured before the read (base)
\* with the parsed markers applied
pollRecord(base, current, m) == applyMarkers(base, m)

\* pollStatusFile after its read, then the rest of the wait loop body up to
\* `await delay(2000)`
PollDone(p) ==
  /\ Quiescent
  /\ pc[p] = "poll"
  /\ LET i == jobIdx[p]
         m == parseStatusFile(statusFile[path[p]])
         after == IF m.agentStatus # Undef
                  THEN [jobs EXCEPT ![i] = pollRecord(snap[p], jobs[i], m)]
                  ELSE jobs
         updated == after[i]
     IN /\ IF ~updated.exists
           THEN /\ CatchAttempt(p, "TypeError")
                /\ waitStart' = [waitStart EXCEPT ![p] = 0]
                /\ UNCHANGED << term, branch >>
           ELSE /\ jobs' = after
                /\ snapAlias' = [q \in Procs |->
                                   IF q = p THEN FALSE
                                   ELSE IF m.agentStatus # Undef THEN Unalias({i})[q]
                                   ELSE snapAlias[q]]
                /\ IF updated.status \in {"Done", "Failed"}
                   THEN /\ term' = [term EXCEPT ![p] = updated.status]
                        /\ pc' = [pc EXCEPT ![p] = "afterWait"]
                        /\ waitStart' = [waitStart EXCEPT ![p] = 0]
                        /\ UNCHANGED branch
                   ELSE /\ branch' = restoreBranch(updated)
                        /\ pc' = [pc EXCEPT ![p] = "waitDelay"]
                        /\ UNCHANGED << term, waitStart >>
        /\ snap' = [snap EXCEPT ![p] = NoJob]
        /\ path' = [path EXCEPT ![p] = NoPath]
  /\ UNCHANGED << runId, running, queue, featureToJob, jobIdx, attempt, maxAttempts,
                  promptText, fileVars, now, worktrees, perJobTimeoutMs, publishVars, cancelQueued,
                  pumpRun, cancelled, lastStop, stopQueued >>

\* `await delay(2000)` of the wait loop elapses
WaitWake(p) ==
  /\ Quiescent
  /\ pc[p] = "waitDelay"
  /\ pc' = [pc EXCEPT ![p] = "waitTop"]
  /\ UNCHANGED << panelVars, pumpLocals, fileVars, envVars, publishVars, cancelQueued, ghostVars >>

\* a publish sequence that records and pushes under the next label
commitPushWrongJob(j, pub) ==
  [published |-> published \cup {[run |-> j.runId, label |-> j.indexLabel + 1]},
   pushed |-> IF EnableWorktree /\ pub
              THEN pushed \cup {[run |-> j.runId, label |-> j.indexLabel + 1]} ELSE pushed]

\* a publish sequence that is never run
commitPushNever(j, pub) == [pushed |-> pushed, published |-> published]

\* commitPushAndCreatePR for job record j; pub, something was staged in the
\* worktree. The result holds the jobs the sequence has been run for and the
\* worktree branches committed and pushed
commitPushAndCreatePR(j, pub) ==
  [published |-> published \cup {[run |-> j.runId, label |-> j.indexLabel]},
   pushed |-> IF EnableWorktree /\ j.worktreePath # NoPath /\ pub
              THEN pushed \cup {j.worktreePath} ELSE pushed]

\* runJob after waitForTerminalStatus returned term[p]
AfterWait(p, pub) ==
  /\ pc[p] = "afterWait"
  /\ Others(p)
  /\ LET i == jobIdx[p]
     IN IF term[p] = "Done"
        THEN IF EnableWorktree /\ ~jobs[i].exists
             THEN CatchAttempt(p, "TypeError") /\ UNCHANGED publishVars
             ELSE /\ pushed' = commitPushAndCreatePR(jobs[i], pub).pushed
                  /\ published' = commitPushAndCreatePR(jobs[i], pub).published
                  /\ pc' = [pc EXCEPT ![p] = "finally"]
                  /\ UNCHANGED << jobs, snapAlias >>
        ELSE IF term[p] = "Failed" /\ attempt[p] < maxAttempts[p]
        THEN /\ jobs' = [jobs EXCEPT ![i] = [@ EXCEPT !.exists = TRUE, !.status = "Queued",
                                                     !.failureMessage = RetryMsg(attempt[p])]]
             /\ snapAlias' = Unalias({i})
             /\ pc' = [pc EXCEPT ![p] = "retryDelay"]
             /\ UNCHANGED publishVars
        ELSE /\ pc' = [pc EXCEPT ![p] = "finally"]
             /\ UNCHANGED << jobs, snapAlias, publishVars, cancelQueued >>
  /\ term' = [term EXCEPT ![p] = Undef]
  /\ UNCHANGED << runId, running, queue, featureToJob, jobIdx, attempt, maxAttempts, snap,
                  promptText, waitStart, path, fileVars, envVars, pumpRun, cancelled, lastStop,
                  stopQueued, cancelQueued >>

\* `await delay(1000)` before a retry elapses; the for loop increments
RetryWake(p) ==
  /\ Quiescent
  /\ pc[p] = "retryDelay"
  /\ attempt' = [attempt EXCEPT ![p] = attempt[p] + 1]
  /\ pc' = [pc EXCEPT ![p] = "attemptTop"]
  /\ UNCHANGED << panelVars, jobIdx, maxAttempts, snap, promptText, waitStart, term, path,
                  fileVars, envVars, publishVars, cancelQueued, ghostVars >>

\* cleanupWorktree: the worktrees left after the removal it issues for job j
cleanupWorktree(j) ==
  IF EnableWorktree /\ j.worktreePath # NoPath THEN worktrees \ {j.worktreePath} ELSE worktrees

\* the finally block of runJob, then back in pumpQueue
Finally(p) ==
  /\ pc[p] = "finally"
  /\ Others(p)
  /\ LET j == jobs[jobIdx[p]]
     IN IF EnableWorktree /\ ~j.exists
        THEN /\ pc' = [pc EXCEPT ![p] = "crashed"]
             /\ UNCHANGED << branch, worktrees >>
        ELSE /\ branch' = restoreBranch(j)
             /\ worktrees' = cleanupWorktree(j)
             /\ pc' = [pc EXCEPT ![p] = "pump"]
  /\ jobIdx' = [jobIdx EXCEPT ![p] = 0]
  /\ attempt' = [attempt EXCEPT ![p] = 0]
  /\ maxAttempts' = [maxAttempts EXCEPT ![p] = 0]
  /\ UNCHANGED << panelVars, snap, promptText, waitStart, term, path, fileVars, now,
                  perJobTimeoutMs, publishVars, cancelQueued, ghostVars >>

\* ------------------------------------------------------------ specification
\* the steps of the queue pump coroutines; faults says whether file-system,
\* git and chat-command failures are explored
PumpStep(p, faults) ==
  \/ EnsureDirDone(p)
  \/ PumpLoop(p)
  \/ \E gitOk \in {TRUE} \cup faults, wtOk \in {TRUE} \cup faults : RunJobEntry(p, gitOk, wtOk)
  \/ AttemptTop(p)
  \/ DeleteDone(p)
  \/ BeginAttempt(p)
  \/ \E ok \in {TRUE} \cup faults : WriteDone(p, ok)
  \/ \E ok \in {TRUE} \cup faults : SendDone(p, ok)
  \/ WaitTop(p)
  \/ PollDone(p)
  \/ WaitWake(p)
  \/ \E pub \in {TRUE} \cup faults : AfterWait(p, pub)
  \/ RetryWake(p)
  \/ Finally(p)

Next ==
  \/ \E pairs \in PairInputs, g \in GlobalMaxLoopsInputs : LoadAndRun(pairs, g)
  \/ \E i \in JobIdx : CancelJob(i)
  \/ \E i \in JobIdx : CancelQueued(i)
  \/ Stop
  \/ \E i \in JobIdx, raw \in SetLoopsInputs : SetMaxLoops(i, raw)
  \/ \E raw \in SetLoopsInputs : SetAllMaxLoops(raw)
  \/ \E sp \in StatusPaths, c \in StatusContents : AgentWriteStatus(sp, c)
  \/ Tick
  \/ BranchDrift
  \/ \E sp \in StatusPaths : StatusEventRead(sp)
  \/ \E rd \in statusReads : StatusEventApply(rd)
  \/ \E f \in Features : ProgressEvent(f)
  \/ \E f \in Features : SpecEvent(f)
  \/ \E f \in Features : ReqEvent(f)
  \/ \E p \in Procs : PumpStep(p, {FALSE})

Spec == Init /\ [][Next]_vars

\* --- two runs: commands and the pump, no status artifacts, no timeout
InitRuns == Init /\ perJobTimeoutMs = 0

NextRuns ==
  \/ \E pairs \in PairInputs, g \in {UndefNum} : LoadAndRun(pairs, g)
  \/ \E i \in JobIdx : CancelJob(i)
  \/ Stop
  \/ BranchDrift
  \/ \E p \in Procs : PumpStep(p, {})

SpecRuns == InitRuns /\ [][NextRuns]_vars

\* --- one run of two jobs: commands, the pump, status artifacts seen by the
\* watcher and by the poller; no timeout
InitJob == Init /\ perJobTimeoutMs = 0

TwoJobs == << Pair("https://a", "x"), Pair("https://b", "") >>

NextJob ==
  \/ (runId = 0 /\ LoadAndRun(TwoJobs, UndefNum))
  \/ \E i \in JobIdx : CancelJob(i)
  \/ Stop
  \/ \E sp \in StatusPaths, c \in StatusContents : AgentWriteStatus(sp, c)
  \/ \E sp \in StatusPaths : StatusEventRead(sp)
  \/ \E rd \in statusReads : StatusEventApply(rd)
  \/ \E p \in Procs : PumpStep(p, {})

SpecJob == InitJob /\ [][NextJob]_vars

\* --- one run: the attempt budget commands, cancel, and a pump whose
\* file-system, git and chat calls can fail; no status artifacts, no timeout
InitLoops == Init /\ perJobTimeoutMs = 0

NextLoops ==
  \/ (runId = 0 /\ \E g \in GlobalMaxLoopsInputs : LoadAndRun(TwoJobs, g))
  \/ \E i \in JobIdx, raw \in SetLoopsInputs : SetMaxLoops(i, raw)
  \/ \E raw \in SetLoopsInputs : SetAllMaxLoops(raw)
  \/ \E i \in JobIdx : CancelJob(i)
  \/ \E p \in Procs : PumpStep(p, {FALSE})

SpecLoops == InitLoops /\ [][NextLoops]_vars

\* --- one run with a per-job timeout: the clock, status artifacts read by
\* the poller, cancel and stop
InitTimeout == Init /\ perJobTimeoutMs = PerJobTimeoutMs

NextTimeout ==
  \/ (runId = 0 /\ LoadAndRun(TwoJobs, UndefNum))
  \/ \E i \in JobIdx : CancelJob(i)
  \/ Stop
  \/ \E sp \in StatusPaths, c \in StatusContents : AgentWriteStatus(sp, c)
  \/ Tick
  \/ \E p \in Procs : PumpStep(p, {})

SpecTimeout == InitTimeout /\ [][NextTimeout]_vars

\* --- one run of two jobs with every watcher: status, progress,
\* specification and requirements artifacts, the clock; no commands after
\* loadAndRun, no timeout
InitFeat == Init /\ perJobTimeoutMs = 0

NextFeat ==
  \/ (runId = 0 /\ LoadAndRun(TwoJobs, UndefNum))
  \/ \E sp \in StatusPaths, c \in StatusContents : AgentWriteStatus(sp, c)
  \/ \E sp \in StatusPaths : StatusEventRead(sp)
  \/ \E rd \in statusReads : StatusEventApply(rd)
  \/ \E f \in Features : ProgressEvent(f)
  \/ \E f \in Features : SpecEvent(f)
  \/ \E f \in Features : ReqEvent(f)
  \/ Tick
  \/ \E p \in Procs : PumpStep(p, {})

SpecFeat == InitFeat /\ [][NextFeat]_vars

\* --- two runs with progress events and the clock: loadAndRun, stop and
\* the pumps
InitRunsFeat == Init /\ perJobTimeoutMs = 0

NextRunsFeat ==
  \/ \E pairs \in PairInputs : LoadAndRun(pairs, UndefNum)
  \/ Stop
  \/ Tick
  \/ \E f \in Features : ProgressEvent(f)
  \/ \E p \in Procs : PumpStep(p, {})

SpecRunsFeat == InitRunsFeat /\ [][NextRunsFeat]_vars

\* --- two runs with progress, specification and requirements events:
\* loadAndRun, stop and the pumps; the clock stands still
InitRunsLink == Init /\ perJobTimeoutMs = 0

NextRunsLink ==
  \/ \E pairs \in PairInputs : LoadAndRun(pairs, UndefNum)
  \/ Stop
  \/ \E f \in Features : ProgressEvent(f)
  \/ \E f \in Features : SpecEvent(f)
  \/ \E f \in Features : ReqEvent(f)
  \/ \E p \in Procs : PumpStep(p, {})

SpecRunsLink == InitRunsLink /\ [][NextRunsLink]_vars

\* --- two runs loaded from every input list: loads, cancel, and the pump
InitBuild == Init /\ perJobTimeoutMs = 0

NextBuild ==
  \/ \E pairs \in BuildInputs : LoadAndRun(pairs, UndefNum)
  \/ \E i \in JobIdx : CancelJob(i)
  \/ \E p \in Procs : PumpStep(p, {})

SpecBuild == InitBuild /\ [][NextBuild]_vars

\* --- one run of two jobs: cancel requests, for running and for queued jobs,
\* and the pump
InitCancel == Init /\ perJobTimeoutMs = 0

NextCancel ==
  \/ (runId = 0 /\ LoadAndRun(TwoJobs, UndefNum))
  \/ \E i \in JobIdx : CancelJob(i)
  \/ \E i \in JobIdx : CancelQueued(i)
  \/ \E p \in Procs : PumpStep(p, {})

SpecCancel == InitCancel /\ [][NextCancel]_vars

\* --- one run of two jobs: progress files that name a feature and status
\* artifacts that name the same or another feature
InitName == Init /\ perJobTimeoutMs = 0

NextName ==
  \/ (runId = 0 /\ LoadAndRun(TwoJobs, UndefNum))
  \/ \E sp \in StatusPaths, c \in {FailFile, GadgetsFile} : AgentWriteStatus(sp, c)
  \/ \E sp \in StatusPaths : StatusEventRead(sp)
  \/ \E rd \in statusReads : StatusEventApply(rd)
  \/ \E f \in Features : ProgressEvent(f)
  \/ \E p \in Procs : PumpStep(p, {})

SpecName == InitName /\ [][NextName]_vars

\* --- one run of one or two jobs: status artifacts seen by the watcher, and
\* the pump
InitEvt == Init /\ perJobTimeoutMs = 0

NextEvt ==
  \/ (runId = 0 /\ \E pairs \in PairInputs : LoadAndRun(pairs, UndefNum))
  \/ \E sp \in StatusPaths, c \in {PassFile, FailFile} : AgentWriteStatus(sp, c)
  \/ \E sp \in StatusPaths : StatusEventRead(sp)
  \/ \E rd \in statusReads : StatusEventApply(rd)
  \/ \E p \in Procs : PumpStep(p, {})

SpecEvt == InitEvt /\ [][NextEvt]_vars

\* --- one run of two jobs: status artifacts seen by the watcher and the
\* poller, and a pump whose file-system, git and chat calls can fail
InitPublish == Init /\ perJobTimeoutMs = 0

NextPublish ==
  \/ (runId = 0 /\ LoadAndRun(TwoJobs, UndefNum))
  \/ \E sp \in StatusPaths, c \in {PassFile, FailFile} : AgentWriteStatus(sp, c)
  \/ \E sp \in StatusPaths : StatusEventRead(sp)
  \/ \E rd \in statusReads : StatusEventApply(rd)
  \/ \E p \in Procs : PumpStep(p, {FALSE})

SpecPublish == InitPublish /\ [][NextPublish]_vars

\* --- two runs of one job, stop between them, and the agent of the first
\* run, which writes its status artifacts under that run's directory at any
\* time, also after the second run has started
InitStale == Init /\ perJobTimeoutMs = 0

OneJob == << Pair("https://a", "x") >>

NextStale ==
  \/ LoadAndRun(OneJob, UndefNum)
  \/ Stop
  \/ \E sp \in StatusPaths, c \in {PassFile, FailFile} : (sp.run = 1 /\ AgentWriteStatus(sp, c))
  \/ \E sp \in StatusPaths : StatusEventRead(sp)
  \/ \E rd \in statusReads : StatusEventApply(rd)
  \/ \E p \in Procs : PumpStep(p, {})

SpecStale == InitStale /\ [][NextStale]_vars

\* ------------------------------------------------------------ claims
\* the program counters of a pump that is inside runJob
InLoopPcs == {"runJob", "attemptTop", "delete", "beginAttempt", "write", "send", "waitTop",
              "poll", "waitDelay", "afterWait", "retryDelay", "finally"}
InLoop(p) == pc[p] \in InLoopPcs
\* the step in which pump p hands its prompt to the chat
Dispatch(p) == pc[p] = "send" /\ pc'[p] = "waitTop"
PumpsFinished == \A p \in Procs : pc[p] \in {"idle", "done", "crashed"}

\* C1: single-flight scheduling: at most one pump is inside runJob and at
\* most one job has status Planning or Running
C1_SingleFlight ==
  /\ Cardinality({p \in Procs : InLoop(p)}) <= 1
  /\ Cardinality({i \in JobIdx : jobs[i].exists /\ jobs[i].status \in {"Planning", "Running"}}) <= 1

\* C2: a pump that belongs to an earlier run than the active one takes no step
\* that pops the queue, changes a job, dispatches a prompt or clears running
C2_NoStalePumpEffect ==
  [][\A p \in Procs :
       (pumpRun[p] # 0 /\ pumpRun[p] # runId /\ (pc[p] = "pump" \/ pc'[p] # pc[p]))
         => (jobs' = jobs /\ queue' = queue /\ running' = running /\ ~Dispatch(p))]_vars

\* C3: a job whose cancelJob was accepted has status Failed for the rest of
\* the run
C3_CancelStaysFailed == \A i \in cancelled : jobs[i].status = "Failed"

\* C4: after cancelJob was accepted for a job, its attemptsUsed does not
\* increase and no prompt is dispatched for it
C4_CancelNoRetry ==
  [][\A i \in JobIdx :
       (i \in cancelled /\ i \in cancelled')
         => /\ jobs'[i].attemptsUsed <= jobs[i].attemptsUsed
            /\ \A p \in Procs : Dispatch(p) => jobIdx[p] # i]_vars

\* C6 as stated: a job with status Done, Failed or Stopped has no pump
\* inside runJob for it
C6_TerminalImpliesExited ==
  \A i \in JobIdx, p \in Procs :
    (jobs[i].exists /\ jobs[i].status \in Terminal /\ InLoop(p)) => jobIdx[p] # i

\* C6 as amended: the status may become terminal while the loop is suspended;
\* when the wait loop next evaluates its condition with the job Done, Failed
\* or Stopped it returns at once (that status, or Stopped when running is
\* false) without polling the status file and without changing the job
C6_TerminalEndsWait ==
  [][\A p \in Procs :
       (/\ pc[p] = "waitTop"
        /\ jobs[jobIdx[p]].exists
        /\ jobs[jobIdx[p]].status \in Terminal)
         => /\ pc'[p] = "afterWait"
            /\ term'[p] = (IF running THEN jobs[jobIdx[p]].status ELSE "Stopped")
            /\ jobs' = jobs]_vars

\* a wait returned Failed for a job that cancelJob had set Failed while the
\* loop was suspended
C6_Witness ==
  \E p \in Procs :
    /\ pc[p] = "afterWait"
    /\ term[p] = "Failed"
    /\ jobs[jobIdx[p]].status = "Failed"
    /\ jobs[jobIdx[p]].failureMessage = CancelMsg

\* the step in which pump p starts an attempt of its job
StartAttempt(p) == pc[p] = "beginAttempt" /\ pc'[p] = "write"

\* C11: a job that was Queued when stop was handled stays Stopped for the rest
\* of that run, no attempt of it starts and no prompt is dispatched for it
C11_EarlyStop ==
  [][\A i \in stopQueued \cap stopQueued' :
       /\ jobs'[i].status = "Stopped"
       /\ \A p \in Procs : (StartAttempt(p) \/ Dispatch(p)) => jobIdx[p] # i]_vars

\* C12: once a job's status is Done or Stopped it does not change again
\* during that run
C12_DoneStoppedTerminal ==
  [][\A i \in JobIdx :
       (/\ jobs[i].exists /\ jobs[i].status \in {"Done", "Stopped"}
        /\ jobs'[i].exists /\ jobs'[i].runId = jobs[i].runId)
         => jobs'[i].status = jobs[i].status]_vars

\* C13: every change of a job's status within a run is one of the legal
\* edges; Failed -> Queued only while attempts remain
C13_LegalEdges ==
  [][\A i \in JobIdx :
       LET a == jobs[i]
           b == jobs'[i]
       IN (/\ a.exists /\ b.exists /\ b.runId = a.runId /\ b.status # a.status)
            => \/ (a.status = "Queued" /\ b.status = "Planning" /\ b.attemptsUsed = 1)
               \/ (a.status = "Planning" /\ b.status = "Running")
               \/ (a.status = "Queued" /\ b.status = "Running" /\ b.attemptsUsed > 1)
               \/ (a.status = "Running" /\ b.status \in {"Done", "Failed", "Stopped"})
               \/ (a.status = "Planning" /\ b.status = "Failed")
               \/ (a.status = "Queued" /\ b.status = "Stopped")
               \/ (a.status = "Failed" /\ b.status = "Queued"
                      /\ a.attemptsUsed < a.maxLoops)]_vars

\* C14: after an artifact event was handled, handling the same event again
\* leaves the jobs, the Feature-to-Job Map and the queue as they are
C14_IdempotentEvents ==
  [][/\ \A rd \in statusReads :
          StatusEventApply(rd) => (onStatusFileEvent(rd))' = jobs'
     /\ \A f \in Features :
          /\ ProgressEvent(f)
               => (refreshFromProgressFile(f))' = [jobs |-> jobs', featureToJob |-> featureToJob']
          /\ SpecEvent(f) => (onSpecFileEvent(f))' = jobs'
          /\ ReqEvent(f) => (onReqFileEvent(f))' = jobs']_vars

\* every handler has acted: a status event set job 1 Done before it was ever
\* started, and feature Widgets is mapped to job 0 with its specification and
\* requirements files linked
C14_Witness ==
  /\ jobs[1].exists /\ jobs[1].status = "Done" /\ jobs[1].attemptsUsed = 0
  /\ featureToJob["Widgets"] = 0
  /\ jobs[0].progressFile = ProgressPath("Widgets")
  /\ jobs[0].specFile = SpecPath("Widgets")
  /\ jobs[0].requirementsFile = ReqPath("Widgets")

\* C15: a status artifact without a PASS/FAIL marker changes no job, whether
\* the watcher delivers it or the poller reads it
C15_NoMarkerIgnored ==
  [][/\ \A rd \in statusReads :
          (parseStatusFile(rd.content).agentStatus = Undef /\ StatusEventApply(rd))
            => jobs' = jobs
     /\ \A p \in Procs :
          (/\ pc[p] = "poll" /\ pc'[p] # pc[p]
           /\ statusFile[path[p]] # NoFile
           /\ parseStatusFile(statusFile[path[p]]).agentStatus = Undef)
            => jobs' = jobs]_vars

\* the only artifact written has no marker, the watcher has delivered it, and
\* the wait loop of its job has polled and sleeps
C15_Witness ==
  \E p \in Procs :
    /\ pc[p] = "waitDelay"
    /\ jobs[jobIdx[p]].status = "Running"
    /\ statusFile[[run |-> runId, label |-> jobs[jobIdx[p]].indexLabel]] = NoMarkerFile
    /\ writes = 1 /\ statusEvents = {} /\ statusReads = {}

\* job i of the active run is Planning or Running, has no feature name and
\* started no longer ago than the mapping window
Qualifies(i) ==
  /\ jobs[i].exists /\ jobs[i].runId = runId
  /\ jobs[i].status \in {"Planning", "Running"}
  /\ jobs[i].featureName = Undef
  /\ now - jobs[i].startedAt <= FeatureMapWindowMs

C17_MappingStable ==
  [][\A f \in Features :
       featureToJob[f] # NotMapped
         => LET i == featureToJob[f]
            IN /\ (jobs[i].exists /\ runId' = runId)
                    => /\ featureToJob'[f] = i
                       /\ jobs'[i].exists /\ jobs'[i].runId = jobs[i].runId
               /\ SpecEvent(f) => (jobs[i].exists /\ jobs'[i].specFile = SpecPath(f))
               /\ ReqEvent(f)
                    => (jobs[i].exists /\ jobs'[i].requirementsFile = ReqPath(f))]_vars

\* C18: FIFO order. When the first attempt of job i starts, no pump is inside
\* the attempt loop of a job with a smaller index, and no job of the same run
\* with a larger index has had an attempt yet.
C18_Fifo ==
  [][\A p \in Procs :
       (StartAttempt(p) /\ attempt[p] = 1) =>
         LET i == jobIdx[p]
         IN /\ \A q \in Procs \ {p} : InLoop(q) => jobIdx[q] >= i
            /\ \A k \in JobIdx :
                 (k > i /\ jobs[k].exists /\ jobs[k].runId = jobs[i].runId)
                   => jobs[k].attemptsUsed = 0]_vars

\* the wait of pump p returned Done and runJob resumes
DoneReturned(p) == pc[p] = "afterWait" /\ term[p] = "Done" /\ pc'[p] # "afterWait"

\* the run id and label that identify job i
JobKey(i) == [run |-> jobs[i].runId, label |-> jobs[i].indexLabel]

\* C19: success terminates the whole job. When the wait of a pump returns Done
\* the publish sequence is run for the job and the pump leaves the attempt loop
\* at once, whatever attempts remain, without requeueing or otherwise touching
\* the job record; from the exit of a published job the pump goes back to its
\* queue with its attempt counter cleared.
C19_DoneEndsJob ==
  [][\A p \in Procs :
       LET i == jobIdx[p]
       IN /\ DoneReturned(p) => /\ JobKey(i) \in published'
                                /\ pc'[p] = "finally"
                                /\ jobs' = jobs
          /\ (pc[p] = "finally" /\ pc'[p] # "finally" /\ JobKey(i) \in published)
               => (pc'[p] = "pump" /\ attempt'[p] = 0)]_vars

\* job 1 has passed on its first attempt of two, was published, and the pump
\* has started job 2
C19_Witness ==
  /\ jobs[0].status = "Done" /\ jobs[0].attemptsUsed = 1 /\ jobs[0].maxLoops = 2
  /\ JobKey(0) \in published /\ jobs[0].worktreePath \in pushed
  /\ \E p \in Procs : jobIdx[p] = 1 /\ pc[p] = "write" /\ attempt[p] = 1

\* pump p catches an exception with message m: writePromptFile or
\* sendPromptToChat threw
Thrown(p, m) == \/ (m = "fs" /\ WriteDone(p, FALSE))
                \/ (m = "dispatch" /\ SendDone(p, FALSE))

\* C20: an exception raised inside an attempt is caught per attempt. With
\* attempts remaining the job is requeued with the exception message recorded
\* and the pump pauses and goes on to the next attempt as after a Failed
\* outcome; on the final attempt the job ends Failed with finalStatus FAIL and
\* the exception message as failureMessage, and the attempt loop is left.
C20_ExceptionPerAttempt ==
  [][\A p \in Procs :
       LET i == jobIdx[p]
       IN /\ \A m \in {"fs", "dispatch"} :
               Thrown(p, m) =>
                 IF attempt[p] < maxAttempts[p]
                 THEN /\ jobs'[i].status = "Queued"
                      /\ jobs'[i].attemptsUsed = attempt[p]
                      /\ jobs'[i].failureMessage = ErrorRetryMsg(attempt[p], m)
                      /\ pc'[p] = "retryDelay"
                      /\ attempt'[p] = attempt[p]
                 ELSE /\ jobs'[i].status = "Failed"
                      /\ jobs'[i].finalStatus = "FAIL"
                      /\ jobs'[i].failureMessage = ExceptionMsg(m)
                      /\ pc'[p] = "finally"
          /\ (pc[p] = "afterWait" /\ term[p] = "Failed" /\ attempt[p] < maxAttempts[p])
               => (pc'[p] = "retryDelay" /\ attempt'[p] = attempt[p])
          /\ (pc[p] = "retryDelay" /\ pc'[p] # pc[p])
               => (/\ pc'[p] = "attemptTop" /\ attempt'[p] = attempt[p] + 1
                   /\ jobs' = jobs)]_vars

\* job 1 was retried after an exception and ended on its final attempt with
\* the dispatch exception; job 2 is paused for a retry after a file-system
\* exception in its first attempt; neither was cancelled
C20_Witness ==
  /\ jobs[0].status = "Failed" /\ jobs[0].finalStatus = "FAIL"
  /\ jobs[0].failureMessage = ExceptionMsg("dispatch")
  /\ jobs[0].attemptsUsed = 2
  /\ jobs[1].status = "Queued" /\ jobs[1].failureMessage = ErrorRetryMsg(1, "fs")
  /\ \E p \in Procs : pc[p] = "retryDelay" /\ jobIdx[p] = 1 /\ attempt[p] = 1
  /\ cancelled = {}

\* C21: collaborator best-effort failures are never job failures. A failed
\* worktree creation, any outcome of the publish sequence, and a dispatch in
\* which every strategy fails leave the job's status other than Failed, record
\* no failure message and do not send the pump to a retry.
C21_BestEffortNotFailure ==
  [][\A p \in Procs :
       LET i == jobIdx[p]
       IN /\ SendDone(p, FALSE)
               => (/\ jobs'[i].status # "Failed"
                   /\ jobs'[i].failureMessage = jobs[i].failureMessage
                   /\ pc'[p] # "retryDelay")
          /\ \A gitOk \in BOOLEAN : RunJobEntry(p, gitOk, FALSE)
               => (jobs'[i].status = jobs[i].status /\ pc'[p] = "attemptTop")
          /\ \A pub \in BOOLEAN : (DoneReturned(p) /\ AfterWait(p, pub))
               => jobs'[i].status = jobs[i].status]_vars

\* C22: termination of the queue pump: no exception escapes a pump (a pump
\* that throws never reaches the assignment of false to running).
C22_PumpNeverThrows == \A p \in Procs : pc[p] # "crashed"

\* the valid urls of a submitted list, and the first position of url u in it
ValidUrls(pairs) == {trim(pairs[k].url) : k \in 1..Len(pairs)} \cap {"https://a", "https://b"}
FirstOcc(pairs, u) == CHOOSE k \in 1..Len(pairs) :
                        trim(pairs[k].url) = u /\ \A m \in 1..(k - 1) : trim(pairs[m].url) # u

\* C23: loadAndRun creates exactly one job per distinct valid url of the
\* submitted pairs, in order of first occurrence, with the prompt override of
\* that first occurrence, and with pairwise distinct index labels.
C23_OneJobPerUrl ==
  [][\A pairs \in BuildInputs :
       LoadAndRun(pairs, UndefNum) =>
         LET V == ValidUrls(pairs)
             J == {i \in JobIdx : jobs'[i].exists}
         IN /\ J = 0..(Cardinality(V) - 1)
            /\ \A u \in V : Cardinality({i \in J : jobs'[i].url = u}) = 1
            /\ \A i \in J : /\ jobs'[i].url \in V
                            /\ jobs'[i].customPrompt = pairs[FirstOcc(pairs, jobs'[i].url)].prompt
            /\ \A i, k \in J :
                 i < k => /\ FirstOcc(pairs, jobs'[i].url) < FirstOcc(pairs, jobs'[k].url)
                          /\ jobs'[i].indexLabel # jobs'[k].indexLabel]_vars

\* a run of two jobs whose urls were both submitted twice: job 1 is https://b
\* with the first prompt, job 2 is https://a
C23_Witness ==
  /\ runId > 0 /\ running
  /\ jobs[0].exists /\ jobs[0].url = "https://b" /\ jobs[0].customPrompt = "x"
  /\ jobs[1].exists /\ jobs[1].url = "https://a" /\ jobs[1].customPrompt = ""
  /\ jobs[0].indexLabel = 1 /\ jobs[1].indexLabel = 2
  /\ queue = << 0, 1 >>

\* C24: in every reachable state each job's maxLoops lies in 1..20
C24_MaxLoopsInRange ==
  \A i \in JobIdx : jobs[i].exists => jobs[i].maxLoops \in ClampMin..ClampMax

\* pump p is in an attempt of job i, past the deletion of the status file,
\* and no status artifact has been written for the job since that deletion
FreshAttempt(p, i) ==
  /\ jobIdx[p] = i /\ jobs[i].exists
  /\ pc[p] \in {"beginAttempt", "write", "send", "waitTop", "poll", "waitDelay"}
  /\ statusFile[[run |-> jobs[i].runId, label |-> jobs[i].indexLabel]] = NoFile

\* C25: stale status clearing. The status file is deleted before the attempt's
\* record is written and its prompt dispatched, and a watcher read taken from
\* the content that was there before the attempt (the file has been deleted
\* since and not written again) does not change the job's status during the
\* attempt.
C25_StaleStatusIgnored ==
  [][/\ \A p \in Procs : (pc[p] = "delete" /\ pc'[p] # pc[p])
                            => (statusFile'[path[p]] = NoFile /\ pc'[p] = "beginAttempt")
     /\ \A rd \in statusReads : \A p \in Procs : \A i \in JobIdx :
          (FreshAttempt(p, i) /\ rd.label = jobs[i].indexLabel /\ StatusEventApply(rd))
            => jobs'[i].status = jobs[i].status]_vars

\* C26: a job for which a cancel request arrived while it waited in the queue
\* is skipped by the pump: no pump enters runJob for it (no worktree is
\* created), starts an attempt of it (it never becomes Planning or Running) or
\* dispatches a prompt for it.
C26_CancelledQueuedSkipped ==
  [][\A p \in Procs :
       (\/ (pc[p] = "runJob" /\ pc'[p] # pc[p])
        \/ StartAttempt(p)
        \/ Dispatch(p)) => JobKey(jobIdx[p]) \notin cancelQueued]_vars

\* the job list pollStatusFile of pump p leaves, over job list js, for the
\* content c it read
pollResult(p, js, c) ==
  LET m == parseStatusFile(c)
  IN IF m.agentStatus = Undef THEN js
     ELSE [js EXCEPT ![jobIdx[p]] = pollRecord(snap[p], js[jobIdx[p]], m)]

\* C27: both completion paths converge. Whenever the poller of a job has an
\* artifact to read and holds the current job record, the watcher handler and
\* the poller produce the same job list from that artifact; the watcher
\* handling it after the poller, and the poller storing it after the watcher,
\* leave the record that one of them alone produces.
C27_PathsConverge ==
  [][\A p \in Procs : \A c \in StatusContents : \A l \in 1..MaxJobs :
       LET i == jobIdx[p]
           rd == [label |-> l, content |-> c]
       IN (/\ pc[p] = "poll" /\ snap[p] = jobs[i]
           /\ path[p] \in StatusPaths /\ statusFile[path[p]] = c /\ path[p].label = l) =>
            /\ onStatusFileEvent(rd) = pollResult(p, jobs, c)
            /\ PollDone(p) => (onStatusFileEvent(rd))' = jobs'
            /\ StatusEventApply(rd) => /\ jobs' = pollResult(p, jobs, c)
                                       /\ pollResult(p, jobs', c) = jobs']_vars

\* the poller of job 1 and the watcher handler have both read the same PASS
\* artifact and neither has stored its result yet
C27_Witness ==
  \E p \in Procs :
    /\ pc[p] = "poll" /\ jobIdx[p] = 0 /\ snap[p] = jobs[0]
    /\ statusFile[path[p]] = PassFile
    /\ [label |-> path[p].label, content |-> PassFile] \in statusReads
    /\ jobs[0].status = "Running"

\* C28: applying a well-formed status artifact sets the job Done for PASS and
\* Failed for FAIL with that terminal outcome, and gives the job the feature
\* name of the artifact only if the job has none: a feature name that is
\* already set is kept.
C28_FeatureNameKept ==
  [][\A rd \in statusReads :
       LET i == findStatusJob(rd.label)
           m == parseStatusFile(rd.content)
       IN (StatusEventApply(rd) /\ i # NotMapped /\ m.agentStatus # Undef) =>
            /\ jobs'[i].status = (IF m.agentStatus = "PASS" THEN "Done" ELSE "Failed")
            /\ jobs'[i].finalStatus = m.agentStatus
            /\ jobs'[i].featureName = (IF jobs[i].featureName # Undef
                                       THEN jobs[i].featureName ELSE m.featureName)]_vars

\* job i carries the label of the artifact and the active run id
StatusMatch(i, label) ==
  jobs[i].exists /\ jobs[i].indexLabel = label /\ jobs[i].runId = runId

\* C29: a status event never changes the queue or the running flag, and it
\* changes the job list only in a job whose index label is the label of the
\* artifact's file name and whose run id is the active run id; when no such job
\* exists the job list is unchanged.
C29_StatusEventFrame ==
  [][\A rd \in statusReads :
       StatusEventApply(rd) =>
         /\ queue' = queue /\ running' = running /\ runId' = runId
         /\ \A i \in JobIdx : jobs'[i] # jobs[i] => StatusMatch(i, rd.label)
         /\ (~\E i \in JobIdx : StatusMatch(i, rd.label)) => jobs' = jobs]_vars

\* the only run ever started has one job; a PASS artifact with label 2 was
\* written, seen by the watcher and handled, and job 1 is untouched
C29_Witness ==
  /\ runId = 1 /\ running /\ lastStop = "none"
  /\ jobs[0].exists /\ ~jobs[1].exists
  /\ statusFile[[run |-> 1, label |-> 2]] = PassFile
  /\ statusEvents = {} /\ statusReads = {}
  /\ jobs[0].status = "Running" /\ jobs[0].finalStatus = Undef

C31_AbortAtTop ==
  [][\A p \in Procs :
       LET i == jobIdx[p]
       IN /\ (pc[p] = "attemptTop" /\ pc'[p] # pc[p] /\ (jobs[i].stopped \/ ~running))
               => (pc'[p] = "finally" /\ jobs' = jobs)
          /\ (pc[p] = "finally" /\ pc'[p] # pc[p]) => jobs' = jobs]_vars

\* job 1 was cancelled during its first attempt, after the job had started;
\* the top of its second attempt saw the stopped flag and left the loop with
\* the record as the retry left it
C31_Witness ==
  \E p \in Procs :
    /\ pc[p] = "finally" /\ jobIdx[p] = 0 /\ attempt[p] = 2
    /\ jobs[0].stopped /\ jobs[0].status = "Queued" /\ jobs[0].attemptsUsed = 1
    /\ 0 \in cancelled /\ running

\* C32: an artifact event that cannot be correlated is dropped. A progress
\* event for an unmapped feature when no job qualifies, and a specification or
\* requirements event for an unmapped feature, leave the job list and the map
\* as they are; since nothing is recorded, a progress event that finds a
\* qualifying job afterwards creates the mapping.
C32_UncorrelatedDropped ==
  \A f \in Features :
    featureToJob[f] = NotMapped =>
      /\ onSpecFileEvent(f) = jobs
      /\ onReqFileEvent(f) = jobs
      /\ (~\E q \in JobIdx : Qualifies(q))
           => refreshFromProgressFile(f) = [jobs |-> jobs, featureToJob |-> featureToJob]
      /\ (runId > 0 /\ \E q \in JobIdx : Qualifies(q))
           => refreshFromProgressFile(f).featureToJob[f] # NotMapped

\* a run is active, job 1 is Running but its attempt started longer ago than
\* the mapping window, and the feature is unmapped: a progress event is dropped
C32_Witness ==
  /\ runId > 0 /\ running
  /\ featureToJob["Widgets"] = NotMapped
  /\ jobs[0].exists /\ jobs[0].status = "Running" /\ jobs[0].featureName = Undef
  /\ now - jobs[0].startedAt > FeatureMapWindowMs
  /\ jobs[1].status = "Queued"

\* C33: no outcome of the publish sequence changes the job's status. The
\* sequence runs exactly when a wait returns Done, for the job of that wait,
\* which is Done before and after whatever was staged, committed or pushed;
\* it leaves the whole job list as it is and pushes at most that job's
\* worktree branch.
C33_PublishKeepsDone ==
  [][/\ \A p \in Procs :
          DoneReturned(p) =>
            /\ jobs[jobIdx[p]].status = "Done"
            /\ jobs' = jobs
            /\ published' = published \cup {JobKey(jobIdx[p])}
            /\ pushed' \subseteq pushed \cup {jobs[jobIdx[p]].worktreePath}
     /\ (published' # published \/ pushed' # pushed) => \E p \in Procs : DoneReturned(p)]_vars

\* job 1 is Done and its publish sequence has run with nothing pushed although
\* its worktree existed; the pump is back at its queue
C33_Witness ==
  /\ jobs[0].status = "Done" /\ jobs[0].finalStatus = "PASS"
  /\ JobKey(0) \in published /\ pushed = {}
  /\ jobs[0].worktreePath # NoPath
  /\ \E p \in Procs : pc[p] = "pump"

\* C34: a loadAndRun command received while running is true changes nothing:
\* for every input the job list, run id, running flag, queue and map it leaves
\* are the current ones and it starts no queue pump.
C34_LoadWhileRunning ==
  running =>
    \A pairs \in PairInputs : \A g \in GlobalMaxLoopsInputs :
      loadAndRun(pairs, g) = [jobs |-> jobs, runId |-> runId, running |-> running,
                              queue |-> queue, featureToJob |-> featureToJob,
                              pump |-> FALSE]

\* a run is active with a prompt being dispatched for job 1 and job 2 queued
C34_Witness ==
  /\ running /\ runId = 1 /\ queue = << 1 >>
  /\ \E p \in Procs : pc[p] = "send" /\ jobIdx[p] = 0
  /\ jobs[0].status = "Running" /\ jobs[1].status = "Queued"

\* C35: no update is lost to a stale snapshot. When pollStatusFile stores the
\* result of its read, the fields stopped and maxLoops of the job keep the
\* values they had just before the write, and featureName and specFile keep
\* them unless the artifact itself names a feature or a specification path.
C35_NoLostUpdate ==
  [][\A p \in Procs :
       LET i == jobIdx[p]
           m == parseStatusFile(statusFile[path[p]])
       IN (/\ pc[p] = "poll" /\ PollDone(p)
           /\ m.agentStatus # Undef /\ jobs[i].exists) =>
            /\ jobs'[i].stopped = jobs[i].stopped
            /\ jobs'[i].maxLoops = jobs[i].maxLoops
            /\ jobs'[i].featureName = OrElse(m.featureName, jobs[i].featureName)
            /\ jobs'[i].specFile = OrElse(m.specPath, jobs[i].specFile)]_vars

\* C36: when a run is over (running is false and every queue pump, the one of
\* the active run included, has returned), every job of that run has status
\* Done, Failed or Stopped.
C36_RunOverAllTerminal ==
  (/\ runId > 0 /\ ~running /\ pc[runId] = "done"
   /\ \A p \in Procs : pc[p] \in {"idle", "done"}) =>
     \A i \in JobIdx :
       (jobs[i].exists /\ jobs[i].runId = runId) => jobs[i].status \in Terminal

\* C37: no prompt is dispatched to the chat for a job whose stopped flag is
\* set or while running is false
C37_NoDispatchWhenStopped ==
  [][\A p \in Procs :
       Dispatch(p) => (running /\ ~jobs[jobIdx[p]].stopped)]_vars

\* the job list onStatusFileEvent leaves for the artifact at path sp when its
\* read returns the file's present content
statusEventOutcome(sp) ==
  IF statusFile[sp] = NoFile THEN jobs
  ELSE onStatusFileEvent([label |-> sp.label, content |-> statusFile[sp]])

\* C38: a status artifact located under the status directory of a run id
\* other than the active run never changes any job of the active run: handling
\* a pending event for such an artifact leaves the job list as it is.
C38_OtherRunArtifactIgnored ==
  \A sp \in statusEvents :
    sp.run # runId => statusEventOutcome(sp) = jobs

\* C39: the Feature-to-Job Map is injective and agrees with the job records:
\* no two feature names map to the same job, and a feature that maps to job i
\* is job i's featureName.
C39_MapAgrees ==
  /\ \A f \in Features : \A g \in Features :
       (featureToJob[f] # NotMapped /\ featureToJob[f] = featureToJob[g]) => f = g
  /\ \A f \in Features :
       featureToJob[f] # NotMapped => jobs[featureToJob[f]].featureName = f

\* every job index held in the queue or in the Feature-to-Job Map is the
\* index of an existing job of the job list
IndicesExist ==
  /\ \A k \in 1..Len(queue) : jobs[queue[k]].exists
  /\ \A f \in Features : featureToJob[f] # NotMapped => jobs[featureToJob[f]].exists

\* a step of one of the watcher event handlers
EventHandlerStep ==
  \/ \E f \in Features : ProgressEvent(f) \/ SpecEvent(f) \/ ReqEvent(f)
  \/ \E rd \in statusReads : StatusEventApply(rd)

\* C40: in every reachable state every job index held in the queue or in the
\* Feature-to-Job Map is the index of an existing job, and no event handler
\* writes a job record at an index that holds no job.
C40_IndicesValid ==
  /\ []IndicesExist
  /\ [][EventHandlerStep => \A i \in JobIdx : jobs'[i].exists => jobs[i].exists]_vars

\* C5: for every job attemptsUsed <= maxLoops, in every reachable state
C5_AttemptsWithinBudget ==
  \A i \in JobIdx : jobs[i].exists => jobs[i].attemptsUsed <= jobs[i].maxLoops

\* C7: once every pump has finished, no created worktree is left
C7_NoWorktreeLeft == PumpsFinished => worktrees = {}

\* C8: the prompt composed for an attempt n > 1 contains the failure message
\* recorded for attempt n-1
C8_RetryPromptHasFailure ==
  \A p \in Procs :
    (pc[p] \in {"write", "send"} /\ attempt[p] > 1)
      => promptText[p].failureMessage # NoMsg

\* C9: with a timeout configured, a wait whose elapsed time exceeds the budget
\* makes the job Failed with the timeout message whatever the status file
\* holds; with attempts remaining the job is requeued, the attempt counter
\* advances after the retry pause, and unless the job was stopped or the run
\* ended meanwhile the next attempt starts
C9_TimeoutThenRetry ==
  [][\A p \in Procs :
       LET i == jobIdx[p]
       IN /\ (/\ pc[p] = "waitTop" /\ running
               /\ jobs[i].exists /\ jobs[i].status \notin Terminal
               /\ perJobTimeoutMs > 0 /\ now - waitStart[p] > perJobTimeoutMs)
              => (/\ jobs'[i].status = "Failed"
                  /\ jobs'[i].failureMessage = TimeoutMsg(perJobTimeoutMs)
                  /\ jobs'[i].finalStatus = "FAIL"
                  /\ pc'[p] = "afterWait" /\ term'[p] = "Failed")
          /\ (pc[p] = "afterWait" /\ term[p] = "Failed" /\ attempt[p] < maxAttempts[p])
              => (pc'[p] = "retryDelay" /\ jobs'[i].status = "Queued")
          /\ (pc[p] = "retryDelay" /\ pc'[p] # pc[p])
              => (pc'[p] = "attemptTop" /\ attempt'[p] = attempt[p] + 1)
          /\ (/\ pc[p] = "attemptTop" /\ attempt[p] <= maxAttempts[p]
               /\ running /\ ~jobs[i].stopped)
              => pc'[p] = "delete"
          /\ (pc[p] = "delete" /\ pc'[p] # pc[p]) => pc'[p] = "beginAttempt"
          /\ pc[p] = "beginAttempt"
              => (/\ jobs'[i].attemptsUsed = attempt[p]
                  /\ jobs'[i].status = (IF attempt[p] = 1 THEN "Planning" ELSE "Running")
                  /\ pc'[p] = "write")]_vars

\* a second attempt is under way for a job that was never cancelled, in a run
\* where no status artifact was ever written: attempt 1 ended by timeout
C9_Witness ==
  \E p \in Procs :
    /\ pc[p] \in {"write", "send", "waitTop", "poll", "waitDelay"}
    /\ attempt[p] = 2
    /\ jobs[jobIdx[p]].attemptsUsed = 2
    /\ jobs[jobIdx[p]].status = "Running"
    /\ jobIdx[p] \notin cancelled
    /\ writes = 0
    /\ perJobTimeoutMs > 0

\* C10: a stop command leaves running false, the queue empty, every job that
\* was Queued Stopped and every job with stopped = true
C10_StopResult ==
  [][Stop => /\ running' = FALSE
             /\ queue' = << >>
             /\ \A i \in JobIdx : jobs[i].exists =>
                   /\ jobs'[i].stopped
                   /\ (jobs[i].status = "Queued" => jobs'[i].status = "Stopped")]_vars

====
